---- MODULE Spec2Model ----
(***************************************************************************)
(* The appointment-to-consultation lifecycle of backend/routes/            *)
(* consultation.py: join_consultation, complete_consultation and           *)
(* update_consultation_notes, run by concurrent request handlers against   *)
(* the shared collections appointments, consultations and security_logs.   *)
(* Every store operation (find_one, insert_one, update_one) is one atomic  *)
(* step; the local computation that follows a store operation belongs to   *)
(* that operation's step.                                                   *)
(***************************************************************************)
EXTENDS Integers, Sequences, FiniteSets, TLC

VARIABLES
    appointments,   \* db.appointments: _id -> document
    consultations,  \* db.consultations: _id -> document
    security_logs,  \* db.security_logs: sequence of documents
    now,            \* the current time, datetime.utcnow(), in milliseconds
    proc,           \* per request handler: position, request and local variables
    last,           \* the response returned by the step just taken, if any
    calls,          \* number of requests started so far
    created,        \* history: appointment id -> first 201 response of a Join on it
    joinVcids       \* history: appointment id -> video_call_ids returned by Joins on it

vars == <<appointments, consultations, security_logs, now, proc, last, calls,
          created, joinVcids>>

----------------------------------------------------------------------------
(* Bounds *)

MaxCalls == 2      \* requests started in a run

Procs == {1, 2}

(* Values *)

\* The tokens of the identity provider: the doctor d1, the patient p1, and a third
\* party x1 as a doctor and as an admin.
Principals ==
    { <<"d1", "doctor">>, <<"p1", "patient">>,
      <<"x1", "doctor">>, <<"x1", "admin">> }
NoteValues == {"n1", "n2"}

None == 0                 \* Python None / absent field, for ids and timestamps
NoCall == <<>>            \* absent (falsy) video_call_id
AppointmentId == 1        \* _id of the appointment of the booking flow
UnknownId == 9            \* an id held by no document
LegacyId == 10            \* _id of a consultation stored without video_call_id

\* Party ids are stored either as strings or as ObjectIds; the principal id of a
\* request is the string of the token.
StrId(u) == [t |-> "str", v |-> u]
Oid(u) == [t |-> "oid", v |-> u]
Str(x) == x.v
ObjectId(x) == [t |-> "oid", v |-> x.v]

\* Times are milliseconds.
MillisPerSecond == 1000
SecondsPerMinute == 60
EarlyMinutes == 15
LateMinutes == 30
Minute == SecondsPerMinute * MillisPerSecond
Slot == 60 * Minute
HalfSecond == MillisPerSecond \div 2

\* The instants of a run: one second before the join window of Slot opens, and
\* its opening.
Instants == { Slot - EarlyMinutes * Minute - MillisPerSecond,
              Slot - EarlyMinutes * Minute }

\* The instants around both ends of the join window of Slot.
WindowInstants == { Slot - EarlyMinutes * Minute - MillisPerSecond,
                    Slot - EarlyMinutes * Minute - HalfSecond,
                    Slot - EarlyMinutes * Minute,
                    Slot + LateMinutes * Minute,
                    Slot + LateMinutes * Minute + HalfSecond,
                    Slot + LateMinutes * Minute + MillisPerSecond }

----------------------------------------------------------------------------
(* Pure helpers of join_consultation *)

\* datetime.fromisoformat(date.replace('Z','').replace('T',' ').split('.')[0]):
\* the fraction of a second is dropped.
ParseAppointmentDate(date) == date - (date % MillisPerSecond)

\* (appointment_time - current_time), here in milliseconds
TimeDiff(appointment, current_time) ==
    ParseAppointmentDate(appointment.appointment_date) - current_time

OutsideWindow(appointment, current_time) ==
    /\ ~appointment.is_immediate
    /\ \/ TimeDiff(appointment, current_time) > EarlyMinutes * Minute
       \/ TimeDiff(appointment, current_time) < (0 - LateMinutes) * Minute

\* a call id made from the time of the request instead of the document id
CallIdByTime(id) == <<"call_", now>>

\* f"call_{id}"
CallId(id) == <<"call_", id>>

\* a status test that turns away cancelled appointments only
NotConfirmedOnlyCancelled(appointment) == appointment.status = "cancelled"

\* the Create path's status test
NotConfirmed(appointment) == appointment.status # "confirmed"

\* the Create path's permission test
CreateDenied(user_id, user_role, appointment) ==
    \/ user_role = "doctor" /\ user_id # appointment.doctor_id
    \/ user_role = "patient" /\ user_id # appointment.patient_id

\* a status test that lets a completed consultation through
NotActiveExceptCompleted(consultation) ==
    consultation.status \notin {"active", "completed"}

\* the Resume path's status test
NotActive(consultation) == consultation.status # "active"

\* a permission test that is applied to active consultations only
ResumeDeniedOnlyActive(user_id, consultation) ==
    /\ consultation.status = "active"
    /\ Str(user_id) \notin {Str(consultation.patient_id), Str(consultation.doctor_id)}

\* the Resume path's permission test
ResumeDenied(user_id, consultation) ==
    Str(user_id) \notin {Str(consultation.patient_id), Str(consultation.doctor_id)}

\* update_consultation_notes' permission test
NotesDenied(user_id, user_role, consultation) ==
    \/ user_role = "doctor" /\ Str(consultation.doctor_id) # Str(user_id)
    \/ user_role = "patient" /\ Str(consultation.patient_id) # Str(user_id)

\* a role test that turns away patients only
NotDoctorOnlyPatient(user_role) == user_role = "patient"

\* complete_consultation's role test
NotDoctor(user_role) == user_role # "doctor"

\* an update that fills in notes only where there are none yet
NotesUpdateKeep(consultation, notes) ==
    IF consultation.notes = "" THEN [consultation EXCEPT !.notes = notes]
    ELSE consultation

\* update_consultation_notes' $set
NotesUpdate(consultation, notes) == [consultation EXCEPT !.notes = notes]

\* a filter that matches on the id alone
CompleteFilterIdOnly(id, user_id) == id \in DOMAIN consultations

\* the filter of complete_consultation's update_one
CompleteFilter(id, user_id) ==
    /\ id \in DOMAIN consultations
    /\ consultations[id].doctor_id = ObjectId(user_id)

\* result.inserted_id: a fresh ObjectId
NewConsultationId == LegacyId + Cardinality(DOMAIN consultations)

\* a consultation whose call id is made from its own id
ConsultationDataOwnCall(appointment_id, appointment, video_call_id, start) ==
    [ appointment_id |-> appointment_id,
      patient_id |-> appointment.patient_id,
      doctor_id |-> appointment.doctor_id,
      scheduled_time |-> appointment.appointment_date,
      start_time |-> start,
      end_time |-> None,
      status |-> "active",
      notes |-> "",
      video_call_id |-> CallId(NewConsultationId),
      is_immediate |-> appointment.is_immediate,
      authorized_users |-> << Str(appointment.doctor_id), Str(appointment.patient_id) >>,
      completed_at |-> None ]

\* a consultation that lists the doctor twice among its authorized users
ConsultationDataDoctorTwice(appointment_id, appointment, video_call_id, start) ==
    [ appointment_id |-> appointment_id,
      patient_id |-> appointment.patient_id,
      doctor_id |-> appointment.doctor_id,
      scheduled_time |-> appointment.appointment_date,
      start_time |-> start,
      end_time |-> None,
      status |-> "active",
      notes |-> "",
      video_call_id |-> video_call_id,
      is_immediate |-> appointment.is_immediate,
      authorized_users |-> << Str(appointment.doctor_id), Str(appointment.doctor_id) >>,
      completed_at |-> None ]

ConsultationData(appointment_id, appointment, video_call_id, start) ==
    [ appointment_id |-> appointment_id,
      patient_id |-> appointment.patient_id,
      doctor_id |-> appointment.doctor_id,
      scheduled_time |-> appointment.appointment_date,
      start_time |-> start,
      end_time |-> None,
      status |-> "active",
      notes |-> "",
      video_call_id |-> video_call_id,
      is_immediate |-> appointment.is_immediate,
      authorized_users |-> << Str(appointment.doctor_id), Str(appointment.patient_id) >>,
      completed_at |-> None ]

----------------------------------------------------------------------------
(* Handlers *)

Idle == [pc |-> "idle"]

Request(op, id, user_id, user_role, notes) ==
    [op |-> op, id |-> id, user_id |-> user_id, user_role |-> user_role, notes |-> notes]

Response(req, code, kind, cid, vcid, status, prior) ==
    [ op |-> req.op, id |-> req.id, user_id |-> req.user_id, user_role |-> req.user_role,
      code |-> code, kind |-> kind, consultation_id |-> cid, video_call_id |-> vcid,
      status |-> status, end_time |-> None, notes |-> "", prior |-> prior ]

\* no Join on the appointment has returned 201 yet.  completed tells whether a
\* consultation of the appointment was completed when the Join began.
NoCreation == [consultation_id |-> None, user_id |-> StrId(""), completed |-> FALSE]

NoResponse ==
    Response(Request("none", None, StrId(""), "", ""), 0, "none", None, NoCall,
             "", NoCreation)

\* the appointment a successful Join concerns: the appointment itself, or the one
\* the resumed consultation was created from
Concerns(id) ==
    IF id \in DOMAIN appointments THEN id
    ELSE IF id \in DOMAIN consultations THEN consultations[id].appointment_id
    ELSE None

Return(p, resp) ==
    /\ proc' = [proc EXCEPT ![p] = Idle]
    /\ last' = resp
    /\ created' =
         IF resp.op = "join" /\ resp.code = 201 /\ created[resp.id] = NoCreation
         THEN [created EXCEPT ![resp.id] =
                  [consultation_id |-> resp.consultation_id, user_id |-> resp.user_id,
                   completed |-> FALSE]]
         ELSE created
    /\ joinVcids' =
         IF resp.op = "join" /\ resp.code \in {200, 201}
            /\ Concerns(resp.id) \in DOMAIN joinVcids
         THEN [joinVcids EXCEPT ![Concerns(resp.id)] = @ \cup {resp.video_call_id}]
         ELSE joinVcids

Goto(p, rec) ==
    /\ proc' = [proc EXCEPT ![p] = rec]
    /\ last' = NoResponse
    /\ UNCHANGED <<created, joinVcids>>

\* join_consultation, lines 14-20 and, when the consultation exists, 132-184
JoinFindConsultation(p, id, user_id, user_role) ==
    /\ proc[p].pc = "idle"
    /\ calls < MaxCalls
    /\ calls' = calls + 1
    /\ UNCHANGED <<appointments, consultations, security_logs, now>>
    /\ LET req == Request("join", id, user_id, user_role, "")
           prior == IF id \in DOMAIN created
                    THEN [created[id] EXCEPT !.completed =
                            \E c \in DOMAIN consultations :
                               /\ consultations[c].appointment_id = id
                               /\ consultations[c].status = "completed"]
                    ELSE NoCreation
       IN
       IF id \notin DOMAIN consultations
       THEN Goto(p, [pc |-> "j_find_appt", req |-> req, prior |-> prior])
       ELSE LET consultation == consultations[id] IN
            IF ResumeDenied(user_id, consultation)
            THEN Goto(p, [pc |-> "j_log", req |-> req])
            ELSE IF NotActive(consultation)
            THEN Return(p, [ Response(req, 403, "NotActive", None, NoCall,
                                      consultation.status, NoCreation)
                             EXCEPT !.end_time = consultation.end_time ])
            ELSE IF consultation.video_call_id = NoCall
            THEN Goto(p, [pc |-> "j_backfill", req |-> req])
            ELSE Return(p, Response(req, 200, "SessionView", id,
                                    consultation.video_call_id, "", NoCreation))

\* a Create path that writes the derived call id to the appointment before its
\* tests of the status, the caller and the time
JoinFindAppointmentEager(p) ==
    /\ proc[p].pc = "j_find_appt"
    /\ UNCHANGED <<consultations, security_logs, now, calls>>
    /\ appointments' =
          IF proc[p].req.id \in DOMAIN appointments
             /\ appointments[proc[p].req.id].video_call_id = NoCall
          THEN [appointments EXCEPT
                   ![proc[p].req.id].video_call_id = CallId(proc[p].req.id)]
          ELSE appointments
    /\ LET req == proc[p].req
           prior == proc[p].prior
       IN
       IF req.id \notin DOMAIN appointments
       THEN Return(p, Response(req, 404, "NotFound", None, NoCall, "", prior))
       ELSE LET appointment == appointments[req.id] IN
            IF NotConfirmed(appointment)
            THEN Return(p, Response(req, 403, "NotReady", None, NoCall,
                                    appointment.status, prior))
            ELSE IF CreateDenied(req.user_id, req.user_role, appointment)
            THEN Return(p, Response(req, 403, "Forbidden", None, NoCall, "", prior))
            ELSE IF OutsideWindow(appointment, now)
            THEN Return(p, Response(req, 403, "OutsideWindow", None, NoCall, "", prior))
            ELSE IF appointment.video_call_id = NoCall
            THEN Goto(p, [pc |-> "j_set_vcid", req |-> req, prior |-> prior,
                          appointment |-> appointment,
                          video_call_id |-> CallId(req.id)])
            ELSE Goto(p, [pc |-> "j_insert", req |-> req, prior |-> prior,
                          appointment |-> appointment,
                          video_call_id |-> appointment.video_call_id])

\* join_consultation, lines 24-76
JoinFindAppointment(p) ==
    /\ proc[p].pc = "j_find_appt"
    /\ UNCHANGED <<appointments, consultations, security_logs, now, calls>>
    /\ LET req == proc[p].req
           prior == proc[p].prior
       IN
       IF req.id \notin DOMAIN appointments
       THEN Return(p, Response(req, 404, "NotFound", None, NoCall, "", prior))
       ELSE LET appointment == appointments[req.id] IN
            IF NotConfirmed(appointment)
            THEN Return(p, Response(req, 403, "NotReady", None, NoCall,
                                    appointment.status, prior))
            ELSE IF CreateDenied(req.user_id, req.user_role, appointment)
            THEN Return(p, Response(req, 403, "Forbidden", None, NoCall, "", prior))
            ELSE IF OutsideWindow(appointment, now)
            THEN Return(p, Response(req, 403, "OutsideWindow", None, NoCall, "", prior))
            ELSE IF appointment.video_call_id = NoCall
            THEN Goto(p, [pc |-> "j_set_vcid", req |-> req, prior |-> prior,
                          appointment |-> appointment,
                          video_call_id |-> CallId(req.id)])
            ELSE Goto(p, [pc |-> "j_insert", req |-> req, prior |-> prior,
                          appointment |-> appointment,
                          video_call_id |-> appointment.video_call_id])

\* join_consultation, lines 78-81
JoinSetVideoCallId(p) ==
    /\ proc[p].pc = "j_set_vcid"
    /\ appointments' = [appointments EXCEPT
                           ![proc[p].req.id].video_call_id = proc[p].video_call_id]
    /\ Goto(p, [proc[p] EXCEPT !.pc = "j_insert"])
    /\ UNCHANGED <<consultations, security_logs, now, calls>>

\* a Create path that goes on to the stamp without the insert
JoinInsertConsultationSkipped(p) ==
    /\ proc[p].pc = "j_insert"
    /\ Goto(p, [pc |-> "j_stamp", req |-> proc[p].req, prior |-> proc[p].prior,
                consultation_id |-> NewConsultationId,
                video_call_id |-> proc[p].video_call_id])
    /\ UNCHANGED <<appointments, consultations, security_logs, now, calls>>

\* join_consultation, lines 84-107
JoinInsertConsultation(p) ==
    /\ proc[p].pc = "j_insert"
    /\ LET cid == NewConsultationId
           data == ConsultationData(proc[p].req.id, proc[p].appointment,
                                    proc[p].video_call_id, now)
       IN
       /\ consultations' = [x \in DOMAIN consultations \cup {cid} |->
                               IF x = cid THEN data ELSE consultations[x]]
       /\ Goto(p, [pc |-> "j_stamp", req |-> proc[p].req, prior |-> proc[p].prior,
                   consultation_id |-> cid, video_call_id |-> proc[p].video_call_id])
    /\ UNCHANGED <<appointments, security_logs, now, calls>>

\* a stamp that also marks the appointment completed
JoinStampAppointmentStatus(p) ==
    /\ proc[p].pc = "j_stamp"
    /\ appointments' = [appointments EXCEPT
                           ![proc[p].req.id].consultation_id = proc[p].consultation_id,
                           ![proc[p].req.id].last_updated = now,
                           ![proc[p].req.id].status = "completed"]
    /\ Return(p, Response(proc[p].req, 201, "SessionView", proc[p].consultation_id,
                          proc[p].video_call_id, "", proc[p].prior))
    /\ UNCHANGED <<consultations, security_logs, now, calls>>

\* join_consultation, lines 110-130
JoinStampAppointment(p) ==
    /\ proc[p].pc = "j_stamp"
    /\ appointments' = [appointments EXCEPT
                           ![proc[p].req.id].consultation_id = proc[p].consultation_id,
                           ![proc[p].req.id].last_updated = now]
    /\ Return(p, Response(proc[p].req, 201, "SessionView", proc[p].consultation_id,
                          proc[p].video_call_id, "", proc[p].prior))
    /\ UNCHANGED <<consultations, security_logs, now, calls>>

\* a denial on the Resume path that leaves no record
JoinLogUnauthorizedNoInsert(p) ==
    /\ proc[p].pc = "j_log"
    /\ Return(p, Response(proc[p].req, 403, "Forbidden", None, NoCall, "", NoCreation))
    /\ UNCHANGED <<appointments, consultations, security_logs, now, calls>>

\* join_consultation, lines 137-147
JoinLogUnauthorized(p) ==
    /\ proc[p].pc = "j_log"
    /\ security_logs' = Append(security_logs,
          [ event |-> "unauthorized_consultation_access",
            user_id |-> Str(proc[p].req.user_id),
            user_role |-> proc[p].req.user_role,
            consultation_id |-> proc[p].req.id,
            timestamp |-> now ])
    /\ Return(p, Response(proc[p].req, 403, "Forbidden", None, NoCall, "", NoCreation))
    /\ UNCHANGED <<appointments, consultations, now, calls>>

\* join_consultation, lines 164-184
JoinBackfillVideoCallId(p) ==
    /\ proc[p].pc = "j_backfill"
    /\ consultations' = [consultations EXCEPT
                            ![proc[p].req.id].video_call_id = CallId(proc[p].req.id)]
    /\ Return(p, Response(proc[p].req, 200, "SessionView", proc[p].req.id,
                          CallId(proc[p].req.id), "", NoCreation))
    /\ UNCHANGED <<appointments, security_logs, now, calls>>

\* complete_consultation, lines 197-227
CompleteConsultation(p, id, user_id, user_role) ==
    /\ proc[p].pc = "idle"
    /\ calls < MaxCalls
    /\ calls' = calls + 1
    /\ UNCHANGED <<appointments, security_logs, now>>
    /\ LET req == Request("complete", id, user_id, user_role, "") IN
       IF NotDoctor(user_role)
       THEN /\ Return(p, Response(req, 403, "Forbidden", None, NoCall, "", NoCreation))
            /\ UNCHANGED consultations
       ELSE IF ~CompleteFilter(id, user_id)
       THEN /\ Return(p, Response(req, 404, "NotFoundOrUnauthorized", None, NoCall,
                                  "", NoCreation))
            /\ UNCHANGED consultations
       ELSE LET updated == [consultations[id] EXCEPT !.status = "completed",
                                                     !.completed_at = now]
                modified_count == IF updated = consultations[id] THEN 0 ELSE 1
            IN
            /\ consultations' = [consultations EXCEPT ![id] = updated]
            /\ IF modified_count = 0
               THEN Return(p, Response(req, 404, "NotFoundOrUnauthorized", None,
                                       NoCall, "", NoCreation))
               ELSE Return(p, Response(req, 200, "Ack", None, NoCall, "", NoCreation))

\* update_consultation_notes, lines 239-274.  The find_one and the update_one are
\* one step: the find_one reads only the document's existence and party ids, which
\* no operation changes, so its answer is the same at the time of the update_one.
UpdateNotes(p, id, user_id, user_role, notes) ==
    /\ proc[p].pc = "idle"
    /\ calls < MaxCalls
    /\ calls' = calls + 1
    /\ UNCHANGED <<appointments, security_logs, now>>
    /\ LET req == Request("notes", id, user_id, user_role, notes) IN
       IF id \notin DOMAIN consultations
       THEN /\ Return(p, Response(req, 404, "NotFound", None, NoCall, "", NoCreation))
            /\ UNCHANGED consultations
       ELSE IF NotesDenied(user_id, user_role, consultations[id])
       THEN /\ Return(p, Response(req, 403, "Forbidden", None, NoCall, "", NoCreation))
            /\ UNCHANGED consultations
       ELSE /\ consultations' = [consultations EXCEPT
                                  ![id] = NotesUpdate(consultations[id], notes)]
            /\ Return(p, [ Response(req, 200, "Ack", None, NoCall, "", NoCreation)
                             EXCEPT !.notes = notes ])

\* time passes between any two store operations
Tick ==
    /\ \E t \in Instants : t > now /\ now' = t
    /\ last' = NoResponse
    /\ UNCHANGED <<appointments, consultations, security_logs, proc, calls,
                   created, joinVcids>>

----------------------------------------------------------------------------
(* Initial state: the documents written by the booking flow *)

PartyTypes == { <<"str", "str">>, <<"oid", "str">> }

Party(t, u) == [t |-> t, v |-> u]

Appointment(status, types, date, immediate, vcid) ==
    [ status |-> status,
      doctor_id |-> Party(types[1], "d1"),
      patient_id |-> Party(types[2], "p1"),
      appointment_date |-> date,
      is_immediate |-> immediate,
      video_call_id |-> vcid,
      consultation_id |-> None,
      last_updated |-> None ]

AppointmentStates ==
    { Appointment("confirmed", ty, Slot, i, NoCall) :
        ty \in PartyTypes, i \in BOOLEAN }
    \cup { Appointment("confirmed", <<"oid", "str">>, Slot, TRUE,
                       <<"room_", AppointmentId>>) }
    \cup { Appointment(s, <<"str", "str">>, Slot, FALSE, NoCall) :
             s \in {"pending", "cancelled", "completed"} }

\* confirmed appointments whose date may carry a fraction of a second
WindowAppointmentStates ==
    { Appointment("confirmed", ty, d, i, NoCall) :
        ty \in PartyTypes, d \in {Slot, Slot + HalfSecond}, i \in BOOLEAN }

LegacyConsultation ==
    [ appointment_id |-> None,
      patient_id |-> StrId("p1"),
      doctor_id |-> Oid("d1"),
      scheduled_time |-> Slot,
      start_time |-> Slot,
      end_time |-> None,
      status |-> "active",
      notes |-> "",
      video_call_id |-> NoCall,
      is_immediate |-> FALSE,
      authorized_users |-> << "d1", "p1" >>,
      completed_at |-> None ]

Init ==
    /\ appointments \in [ {AppointmentId} -> AppointmentStates ]
    /\ consultations = [ x \in {LegacyId} |-> LegacyConsultation ]
    /\ security_logs = << >>
    /\ now = Slot - EarlyMinutes * Minute - MillisPerSecond
    /\ proc = [ p \in Procs |-> Idle ]
    /\ last = NoResponse
    /\ calls = 0
    /\ created = [ a \in {AppointmentId} |-> NoCreation ]
    /\ joinVcids = [ a \in {AppointmentId} |-> {} ]

Ids == {AppointmentId, UnknownId} \cup DOMAIN consultations

Next ==
    \/ \E p \in Procs, id \in Ids, pr \in Principals :
          JoinFindConsultation(p, id, StrId(pr[1]), pr[2])
    \/ \E p \in Procs : JoinFindAppointment(p)
    \/ \E p \in Procs : JoinSetVideoCallId(p)
    \/ \E p \in Procs : JoinInsertConsultation(p)
    \/ \E p \in Procs : JoinStampAppointment(p)
    \/ \E p \in Procs : JoinLogUnauthorized(p)
    \/ \E p \in Procs : JoinBackfillVideoCallId(p)
    \/ \E p \in Procs, id \in Ids, pr \in Principals :
          CompleteConsultation(p, id, StrId(pr[1]), pr[2])
    \/ \E p \in Procs, id \in Ids, pr \in Principals, n \in NoteValues :
          UpdateNotes(p, id, StrId(pr[1]), pr[2], n)
    \/ Tick

Spec == Init /\ [][Next]_vars

\* The time-window policy alone: one Join of the appointment, made at any instant.
InitWindow ==
    /\ appointments \in [ {AppointmentId} -> WindowAppointmentStates ]
    /\ consultations = [ x \in {LegacyId} |-> LegacyConsultation ]
    /\ security_logs = << >>
    /\ now \in WindowInstants
    /\ proc = [ p \in Procs |-> Idle ]
    /\ last = NoResponse
    /\ calls = 0
    /\ created = [ a \in {AppointmentId} |-> NoCreation ]
    /\ joinVcids = [ a \in {AppointmentId} |-> {} ]

NextWindow ==
    \/ \E p \in Procs, pr \in Principals :
          /\ calls = 0
          /\ JoinFindConsultation(p, AppointmentId, StrId(pr[1]), pr[2])
    \/ \E p \in Procs : JoinFindAppointment(p)
    \/ \E p \in Procs : JoinSetVideoCallId(p)
    \/ \E p \in Procs : JoinInsertConsultation(p)
    \/ \E p \in Procs : JoinStampAppointment(p)

SpecWindow == InitWindow /\ [][NextWindow]_vars

\* The store after the patient's first Join of the confirmed immediate appointment
\* a has created consultation 11 (lines 66-120).
StoreAfterJoin(a) ==
    LET video_call_id == IF a.video_call_id = NoCall THEN CallId(AppointmentId)
                         ELSE a.video_call_id
        start == Slot - EarlyMinutes * Minute - MillisPerSecond
        cid == LegacyId + 1
    IN
    /\ appointments = [ x \in {AppointmentId} |->
                          [a EXCEPT !.video_call_id = video_call_id,
                                    !.consultation_id = cid,
                                    !.last_updated = start] ]
    /\ consultations = [ x \in {LegacyId, cid} |->
                           IF x = LegacyId THEN LegacyConsultation
                           ELSE ConsultationData(AppointmentId, a, video_call_id,
                                                 start) ]
    /\ security_logs = << >>
    /\ now = start
    /\ proc = [ p \in Procs |-> Idle ]
    /\ created = [ x \in {AppointmentId} |->
                     [consultation_id |-> cid, user_id |-> StrId("p1"),
                      completed |-> FALSE] ]
    /\ joinVcids = [ x \in {AppointmentId} |-> {video_call_id} ]

\* a store that holds a consultation of the appointment, with no call in progress
InitJoined ==
    \E a \in {x \in AppointmentStates : x.status = "confirmed" /\ x.is_immediate} :
       /\ StoreAfterJoin(a)
       /\ last = NoResponse
       /\ calls = 0

\* the handlers on a store that may already hold a consultation of the appointment
SpecRejoin == (Init \/ InitJoined) /\ [][Next]_vars

----------------------------------------------------------------------------
(* Properties *)

\* the principal ids bound to the appointment or consultation with this id
BoundParties(id) ==
    IF id \in DOMAIN appointments
    THEN {Str(appointments[id].doctor_id), Str(appointments[id].patient_id)}
    ELSE IF id \in DOMAIN consultations
    THEN {Str(consultations[id].doctor_id), Str(consultations[id].patient_id)}
    ELSE {}

ConsultationsOf(a) ==
    {c \in DOMAIN consultations : consultations[c].appointment_id = a}

\* C1: in every reachable state at most one Consultation document refers to a
\* given Appointment.
C1_OneConsultationPerAppointment ==
    \A a \in DOMAIN appointments : Cardinality(ConsultationsOf(a)) <= 1

\* C2: once a Join of an appointment id by one bound party has returned 201, a
\* later successful Join of the same id by the other bound party returns 200 with
\* the consultation id of that first response.
C2_LaterJoinResumes ==
    ( /\ last.op = "join"
      /\ last.id \in DOMAIN appointments
      /\ last.code \in {200, 201}
      /\ last.prior.consultation_id # None
      /\ Str(last.user_id) \in BoundParties(last.id)
      /\ Str(last.prior.user_id) \in BoundParties(last.id)
      /\ last.user_id # last.prior.user_id )
    => ( /\ last.code = 200
         /\ last.consultation_id = last.prior.consultation_id )

\* C3: a stored video_call_id of an appointment or a consultation is never changed
\* by any step.
C3_VideoCallIdImmutable ==
    [][ /\ \A a \in DOMAIN appointments :
              appointments[a].video_call_id # NoCall
              => appointments'[a].video_call_id = appointments[a].video_call_id
        /\ \A c \in DOMAIN consultations :
              consultations[c].video_call_id # NoCall
              => consultations'[c].video_call_id = consultations[c].video_call_id
      ]_vars

\* C3 witness: a Join about to write a video_call_id onto a document that a racing
\* Join has already given one.
C3_Witness ==
    \E p \in Procs :
       \/ /\ proc[p].pc = "j_set_vcid"
          /\ appointments[proc[p].req.id].video_call_id # NoCall
       \/ /\ proc[p].pc = "j_backfill"
          /\ consultations[proc[p].req.id].video_call_id # NoCall

\* C4: all successful Joins that concern one appointment return the same
\* video_call_id.
C4_SameVideoCallId ==
    \A a \in DOMAIN joinVcids : Cardinality(joinVcids[a]) <= 1

\* C4 witness: a Join resumes a consultation of an appointment which an earlier Join
\* of the appointment id created.
C4_Witness ==
    /\ last.op = "join"
    /\ last.code = 200
    /\ Concerns(last.id) \in DOMAIN appointments
    /\ created[Concerns(last.id)] # NoCreation
    /\ last.video_call_id \in joinVcids[Concerns(last.id)]

\* the requests of the Create path that are past the window test
Admitted == {p \in Procs : proc[p].pc \in {"j_set_vcid", "j_insert", "j_stamp"}}

\* d = scheduledTime - now
Delta(a) == appointments[a].appointment_date - now

InWindow(d) == (0 - LateMinutes) * Minute <= d /\ d <= EarlyMinutes * Minute

\* C5: a Create-path Join of a confirmed appointment by a bound party is admitted
\* exactly when the appointment is immediate or -30 min <= d <= +15 min, and is
\* rejected with OutsideWindow otherwise (time stands still in SpecWindow).
C5_WindowInclusive ==
    /\ \A p \in Admitted :
          Str(proc[p].req.user_id) \in BoundParties(proc[p].req.id)
          => \/ appointments[proc[p].req.id].is_immediate
             \/ InWindow(Delta(proc[p].req.id))
    /\ ( last.op = "join" /\ last.kind = "OutsideWindow" )
       => /\ ~appointments[last.id].is_immediate
          /\ ~InWindow(Delta(last.id))

\* the request a step works on: the one in progress, the one it starts, or the one
\* it has answered at once
StepRequest(p) ==
    IF proc[p].pc # "idle" THEN proc[p].req
    ELSE IF proc'[p].pc # "idle" THEN proc'[p].req
    ELSE [op |-> last'.op, id |-> last'.id, user_id |-> last'.user_id,
          user_role |-> last'.user_role, notes |-> ""]

StepOf(p) ==
    \/ proc'[p] # proc[p]
    \/ /\ calls' = calls + 1
       /\ \A q \in Procs : proc'[q] = proc[q]

\* C6: a step made for a principal bound to neither party of the document changes
\* no consultation, and such a principal never receives a success response.
C6_ThirdPartyDenied ==
    [][ \A p \in Procs :
          ( /\ StepOf(p)
            /\ StepRequest(p).id \in DOMAIN appointments \cup DOMAIN consultations
            /\ Str(StepRequest(p).user_id) \notin BoundParties(StepRequest(p).id) )
          => /\ consultations' = consultations
             /\ last'.code \notin {200, 201}
      ]_vars

\* C7: every Join answered Forbidden, on the Resume path or on the Create path,
\* appends exactly one unauthorized_consultation_access record to security_logs.
C7_DeniedJoinAudited ==
    [][ ( last'.op = "join" /\ last'.kind = "Forbidden" )
        => /\ Len(security_logs') = Len(security_logs) + 1
           /\ security_logs'[Len(security_logs')].event
                 = "unauthorized_consultation_access"
           /\ SubSeq(security_logs', 1, Len(security_logs)) = security_logs
      ]_vars

\* a Complete that has just been answered, on an existing consultation
CompleteAnswered ==
    /\ last'.op = "complete"
    /\ last'.id \in DOMAIN consultations

\* C8 as stated: Complete by the bound patient, or by a doctor-role principal who
\* is not the consultation's doctor, returns 404 and leaves the status unchanged.
C8_Original ==
    [][ ( /\ CompleteAnswered
          /\ \/ Str(last'.user_id) = Str(consultations[last'.id].patient_id)
             \/ /\ last'.user_role = "doctor"
                /\ Str(last'.user_id) # Str(consultations[last'.id].doctor_id) )
        => /\ last'.code = 404
           /\ consultations'[last'.id].status = consultations[last'.id].status
      ]_vars

\* C8 amended: Complete by a caller whose role is not doctor (the bound patient
\* among them) returns Forbidden (403); Complete by a doctor-role principal who is
\* not the consultation's doctor returns NotFoundOrUnauthorized (404); both leave
\* the consultation's status unchanged.
C8_CompletionOwnership ==
    [][ CompleteAnswered
        => /\ last'.user_role # "doctor"
              => /\ last'.code = 403 /\ last'.kind = "Forbidden"
                 /\ consultations' = consultations
           /\ ( /\ last'.user_role = "doctor"
                /\ Str(last'.user_id) # Str(consultations[last'.id].doctor_id) )
              => /\ last'.code = 404 /\ last'.kind = "NotFoundOrUnauthorized"
                 /\ consultations' = consultations
      ]_vars

\* C8 witness: the bound patient has called Complete on an existing consultation.
C8_Witness ==
    /\ last.op = "complete"
    /\ last.id \in DOMAIN consultations
    /\ last.user_id = consultations[last.id].patient_id
    /\ last.code = 403

\* C9: Complete by the principal whom the Create path accepts as the bound doctor,
\* on a consultation created from that appointment, returns 200 and the status
\* is completed.
C9_DoctorCompletes ==
    ( /\ last.op = "complete"
      /\ last.user_role = "doctor"
      /\ last.id \in DOMAIN consultations
      /\ consultations[last.id].appointment_id \in DOMAIN appointments
      /\ last.user_id = appointments[consultations[last.id].appointment_id].doctor_id )
    => ( /\ last.code = 200
         /\ consultations[last.id].status = "completed" )

\* C10: a completed consultation stays completed, and a Join of its id by a bound
\* party that starts while it is completed is answered NotActive (403) with the
\* current status at once.
C10_CompletedTerminal ==
    [][ \A c \in DOMAIN consultations :
          consultations[c].status = "completed"
          => /\ consultations'[c].status = "completed"
             /\ \A p \in Procs :
                   ( /\ proc[p].pc = "idle" /\ proc'[p].pc # "idle"
                     /\ proc'[p].req.op = "join" /\ proc'[p].req.id = c )
                   => Str(proc'[p].req.user_id) \notin BoundParties(c)
             /\ ( /\ calls' = calls + 1
                  /\ last'.op = "join" /\ last'.id = c
                  /\ Str(last'.user_id) \in BoundParties(c) )
                => /\ last'.code = 403
                   /\ last'.kind = "NotActive"
                   /\ last'.status = consultations[c].status
      ]_vars

\* C10 witness: a bound party's Join of a completed consultation was answered
\* NotActive.
C10_Witness ==
    /\ last.op = "join"
    /\ last.kind = "NotActive"
    /\ last.id \in DOMAIN consultations
    /\ consultations[last.id].status = "completed"
    /\ Str(last.user_id) \in BoundParties(last.id)

\* the elements of a list
Elements(seq) == {seq[i] : i \in 1..Len(seq)}

\* C11: every consultation created from an appointment has authorized_users equal
\* to exactly the two strings of that appointment's doctor id and patient id, and
\* no step changes authorized_users, doctor_id or patient_id of a consultation.
C11_AuthorizedUsers ==
    [][ \A c \in DOMAIN consultations' :
          /\ consultations'[c].appointment_id \in DOMAIN appointments'
             => LET a == appointments'[consultations'[c].appointment_id] IN
                /\ Len(consultations'[c].authorized_users) = 2
                /\ Cardinality(Elements(consultations'[c].authorized_users)) = 2
                /\ Elements(consultations'[c].authorized_users)
                      = {Str(a.doctor_id), Str(a.patient_id)}
          /\ c \in DOMAIN consultations
             => /\ consultations'[c].authorized_users = consultations[c].authorized_users
                /\ consultations'[c].doctor_id = consultations[c].doctor_id
                /\ consultations'[c].patient_id = consultations[c].patient_id
      ]_vars

\* C11 witness: a consultation created by Join from the appointment has since been
\* written by a later operation.
C11_Witness ==
    \E c \in DOMAIN consultations :
       /\ consultations[c].appointment_id \in DOMAIN appointments
       /\ \/ consultations[c].notes # ""
          \/ consultations[c].status = "completed"

\* C12: an appointment that is not confirmed has no consultation, no Join of it is
\* past the Create path's tests, and a Join of it is answered NotReady (403) with
\* the appointment's current status.
C12_NotReady ==
    \A a \in DOMAIN appointments :
       appointments[a].status # "confirmed"
       => /\ ConsultationsOf(a) = {}
          /\ \A p \in Admitted : proc[p].req.id # a
          /\ ( last.op = "join" /\ last.id = a )
             => /\ last.code = 403
                /\ last.kind = "NotReady"
                /\ last.status = appointments[a].status

\* C12 witness: a Join of an appointment that is not confirmed has been answered.
C12_Witness ==
    /\ last.op = "join"
    /\ last.id \in DOMAIN appointments
    /\ appointments[last.id].status \in {"pending", "cancelled", "completed"}
    /\ last.kind = "NotReady"

\* C13: no step deletes an appointment or changes its status, doctor id, patient
\* id, scheduled time or is_immediate flag; the only appointment fields a step
\* writes are video_call_id, consultation_id and last_updated.
C13_AppointmentFrame ==
    [][ /\ DOMAIN appointments' = DOMAIN appointments
        /\ \A a \in DOMAIN appointments :
              appointments'[a] =
                 [appointments[a] EXCEPT
                     !.video_call_id = appointments'[a].video_call_id,
                     !.consultation_id = appointments'[a].consultation_id,
                     !.last_updated = appointments'[a].last_updated]
      ]_vars

\* C13 witness: a Join has stamped the appointment with its video_call_id, its
\* consultation_id and last_updated.
C13_Witness ==
    \E a \in DOMAIN appointments :
       /\ appointments[a].video_call_id = CallId(a)
       /\ appointments[a].consultation_id \in DOMAIN consultations
       /\ appointments[a].last_updated # None

\* C14: for every active consultation (here: those created by Join) and every
\* caller, the Resume path of Join allows the caller exactly when UpdateNotes
\* allows the caller, namely exactly when the caller's id, as a string, is the
\* consultation's doctor id or patient id.
C14_SameAuthorization ==
    \A c \in DOMAIN consultations : \A pr \in Principals :
       ( /\ consultations[c].status = "active"
         /\ consultations[c].appointment_id \in DOMAIN appointments )
       => /\ ~ResumeDenied(StrId(pr[1]), consultations[c])
             <=> ~NotesDenied(StrId(pr[1]), pr[2], consultations[c])
          /\ ~NotesDenied(StrId(pr[1]), pr[2], consultations[c])
             <=> pr[1] \in BoundParties(c)

\* C15: Complete by a caller whose role is not doctor is answered Forbidden (403)
\* whether or not the id is that of a consultation and whether or not the caller
\* is bound to it, and the step writes nothing to the store.
C15_OnlyDoctorsComplete ==
    [][ ( last'.op = "complete" /\ last'.user_role # "doctor" )
        => /\ last'.code = 403
           /\ last'.kind = "Forbidden"
           /\ consultations' = consultations
           /\ appointments' = appointments
           /\ security_logs' = security_logs
      ]_vars

\* C15 witness: the patient bound to an existing consultation has called Complete
\* on it and was answered Forbidden.
C15_Witness ==
    /\ last.op = "complete"
    /\ last.user_role = "patient"
    /\ last.kind = "Forbidden"
    /\ last.id \in DOMAIN consultations
    /\ Str(last.user_id) \in BoundParties(last.id)

\* C16: a Complete by a doctor-role caller is answered NotFoundOrUnauthorized
\* exactly when no consultation matches both the id and doctor_id = the caller
\* (so a repeated Complete by the owning doctor, also one at the timestamp of the
\* first, is answered Ack), and after an Ack the consultation is completed.
C16_CompleteMatched ==
    ( last.op = "complete" /\ last.user_role = "doctor" )
    => /\ last.kind = "NotFoundOrUnauthorized"
              <=> ~CompleteFilter(last.id, last.user_id)
       /\ last.kind = "Ack" => consultations[last.id].status = "completed"

\* a Join answered Forbidden on the Resume path: the id is that of a consultation
ResumeDenial(resp) ==
    /\ resp.op = "join"
    /\ resp.kind = "Forbidden"
    /\ resp.id \in DOMAIN consultations

\* C17: security_logs only grows, by one unauthorized_consultation_access record
\* of the caller at a time, and only in the step that answers a Resume-path
\* denial of Join; every such denial appends, and no successful Join, no Complete
\* and no UpdateNotes, denied or not, changes security_logs.
C17_AuditOnlyOnResumeDenial ==
    [][ /\ security_logs' # security_logs
           => /\ ResumeDenial(last')
              /\ security_logs' = Append(security_logs,
                    [ event |-> "unauthorized_consultation_access",
                      user_id |-> Str(last'.user_id),
                      user_role |-> last'.user_role,
                      consultation_id |-> last'.id,
                      timestamp |-> now ])
        /\ ResumeDenial(last') => Len(security_logs') = Len(security_logs) + 1
        /\ ( last'.op \in {"complete", "notes"} \/ last'.code \in {200, 201} )
           => security_logs' = security_logs
      ]_vars

\* C17 witness: a Resume-path denial has been answered and recorded, and its
\* record is the only one although two calls were made.
C17_Witness ==
    /\ ResumeDenial(last)
    /\ Len(security_logs) = 1
    /\ security_logs[1].consultation_id = last.id
    /\ calls = 2

\* C18: a Join on an existing consultation by a principal who is neither its
\* doctor nor its patient is answered Forbidden and recorded in security_logs
\* whatever the consultation's status; NotActive, with the consultation's status
\* and end time, is only ever the answer to one of the two bound parties.
C18_GateBeforeStatus ==
    [][ /\ ( /\ last'.op = "join"
             /\ last'.id \in DOMAIN consultations
             /\ Str(last'.user_id) \notin BoundParties(last'.id) )
           => /\ last'.kind = "Forbidden"
              /\ Len(security_logs') = Len(security_logs) + 1
              /\ security_logs'[Len(security_logs')].consultation_id = last'.id
        /\ last'.kind = "NotActive"
           => /\ last'.id \in DOMAIN consultations
              /\ Str(last'.user_id) \in BoundParties(last'.id)
              /\ last'.status = consultations[last'.id].status
              /\ last'.status # "active"
              /\ last'.end_time = consultations[last'.id].end_time
      ]_vars

\* C18 witness: a principal bound to nothing was answered Forbidden, and recorded,
\* on a Join of a consultation that is completed.
C18_Witness ==
    /\ ResumeDenial(last)
    /\ consultations[last.id].status = "completed"
    /\ Str(last.user_id) \notin BoundParties(last.id)
    /\ Len(security_logs) = 1

\* C19: a successful UpdateNotes leaves the consultation with exactly the
\* supplied notes and every other field of it, every other consultation and all
\* appointments as they were, whatever the notes and the status before; and
\* notes change in no other step, so that after several UpdateNotes calls the
\* stored notes are the value supplied by one of them.
C19_NotesOverwrite ==
    [][ /\ ( last'.op = "notes" /\ last'.code = 200 )
           => /\ consultations' =
                    [consultations EXCEPT ![last'.id].notes = last'.notes]
              /\ appointments' = appointments
        /\ \A c \in DOMAIN consultations :
              consultations'[c].notes # consultations[c].notes
              => /\ last'.op = "notes"
                 /\ last'.code = 200
                 /\ last'.id = c
                 /\ consultations'[c].notes = last'.notes
      ]_vars

\* C19 witness: a bound party's UpdateNotes on a completed consultation was
\* answered Ack and the consultation holds its notes.
C19_Witness ==
    /\ last.op = "notes"
    /\ last.code = 200
    /\ Str(last.user_id) \in BoundParties(last.id)
    /\ consultations[last.id].status = "completed"
    /\ consultations[last.id].notes = last.notes
    /\ last.notes \in NoteValues

\* C20: a Join made with an appointment's id after a consultation created from
\* that appointment was completed is never answered with a SessionView, neither
\* that of the completed consultation nor that of a newly created one.
C20_NoRejoinAfterCompleted ==
    ( /\ last.op = "join"
      /\ last.id \in DOMAIN appointments
      /\ last.prior.completed )
    => last.kind # "SessionView"

\* the store of InitJoined is the one the patient's Join leaves behind
JoinedStore ==
    /\ calls = 1
    /\ last.op = "join"
    /\ last.code = 201
    /\ last.user_id = StrId("p1")
    /\ \E a \in {x \in AppointmentStates : x.status = "confirmed" /\ x.is_immediate} :
          StoreAfterJoin(a)

\* C21: in every reachable state, an appointment's consultation_id, once set, is
\* the id of an existing consultation whose appointment_id is that appointment
\* and whose doctor id, patient id and video_call_id are the appointment's.
C21_BackReference ==
    \A a \in DOMAIN appointments :
       appointments[a].consultation_id # None
       => /\ appointments[a].consultation_id \in DOMAIN consultations
          /\ LET consultation == consultations[appointments[a].consultation_id] IN
             /\ consultation.appointment_id = a
             /\ consultation.doctor_id = appointments[a].doctor_id
             /\ consultation.patient_id = appointments[a].patient_id
             /\ consultation.video_call_id = appointments[a].video_call_id

\* C21 witness: two Joins were in progress together, each has inserted a
\* consultation of the appointment, and the appointment is stamped with one.
C21_Witness ==
    \E a \in DOMAIN appointments :
       /\ appointments[a].consultation_id # None
       /\ Cardinality(ConsultationsOf(a)) = 2
       /\ \E p \in Procs : proc[p].pc = "j_stamp"

\* a Join turned away with NotFound, NotReady, OutsideWindow or NotActive, or
\* with Forbidden on the Create path
Rejection(resp) ==
    /\ resp.op = "join"
    /\ \/ resp.kind \in {"NotFound", "NotReady", "OutsideWindow", "NotActive"}
       \/ resp.kind = "Forbidden" /\ resp.id \notin DOMAIN consultations

\* the positions of a Join between its writes to the store
WritingPositions == {"j_set_vcid", "j_insert", "j_stamp", "j_backfill"}

\* C22: a Join that is turned away with NotFound, NotReady, Forbidden on the
\* Create path, OutsideWindow or NotActive has written nothing to the
\* appointments and the consultations: neither its lookup of the consultation
\* nor the step that answers writes, and the answer comes from no position that
\* follows a write.  So after an OutsideWindow answer to the only Join made, the
\* appointment has no video_call_id it did not have before.
C22_RejectedJoinWritesNothing ==
    [][ /\ ( \E p \in Procs : proc[p].pc = "idle" /\ proc'[p].pc = "j_find_appt" )
           => /\ appointments' = appointments
              /\ consultations' = consultations
        /\ Rejection(last')
           => /\ appointments' = appointments
              /\ consultations' = consultations
              /\ \A p \in Procs :
                    proc[p].pc \in WritingPositions => proc'[p] = proc[p]
      ]_vars

\* C22 witness: a Join by a bound party of a confirmed appointment that has no
\* video_call_id was answered OutsideWindow, and the appointment still has none.
C22_Witness ==
    /\ last.op = "join"
    /\ last.kind = "OutsideWindow"
    /\ last.id \in DOMAIN appointments
    /\ Str(last.user_id) \in BoundParties(last.id)
    /\ appointments[last.id].video_call_id = NoCall
    /\ appointments[last.id].consultation_id = None
    /\ ConsultationsOf(last.id) = {}

====
